---------------------------- MODULE Spec2Model ----------------------------
(***************************************************************************)
(* A model of combine_sources.py: the script deletes combined.txt, walks   *)
(* the working directory for *.rs, *.pest and Cargo.toml files, and writes *)
(* one block per file found into a fresh combined.txt.                     *)
(*                                                                         *)
(* A character is a one-element string ("a", "/"), CR and LF are the two   *)
(* line-terminator characters.  A byte is modelled by the ASCII character  *)
(* it encodes, or is one of xC3 (the lead byte of a two-byte sequence),    *)
(* xA9 (a continuation byte) and xFF (valid nowhere in UTF-8).  A path is  *)
(* the tuple of its components (Path.parts), a component a tuple of        *)
(* characters.  The file system maps every path of the model to a record   *)
(* [exists, data], data being the file's bytes.                            *)
(***************************************************************************)
EXTENDS Integers, Sequences, FiniteSets, TLC

VARIABLES
    fs,          \* the file system: path -> [exists, data]
    walk,        \* the order in which the directory traversal yields paths
    pc,          \* the script's position
    rs_files,    \* line 13
    pest_files,  \* line 14
    cargo_toml,  \* line 15
    i,           \* index of `file` in chain(rs_files, pest_files, cargo_toml)
    outOpen,     \* whether the handle `out` is open
    stdout,      \* the messages printed by this run
    err,         \* the step whose exception ended this run, or "none"
    run,         \* the number of the current invocation
    fs0,         \* history: the file system before the first invocation
    prevOut,     \* history: combined.txt as the previous invocation left it
    prevErr      \* history: err of the previous invocation ("first" in run 1)

vars == <<fs, walk, pc, rs_files, pest_files, cargo_toml, i, outOpen,
          stdout, err, run, fs0, prevOut, prevErr>>

---------------------------------------------------------------------------
(* Bounds of the model.                                                    *)

\* most source files a tree holds
MaxFiles == 3
\* most invocations of the script in one behaviour
MaxRuns == 2

---------------------------------------------------------------------------
(* Characters and bytes.                                                   *)

CR == "CR"
LF == "LF"
xC3 == "xC3"
xA9 == "xA9"
xFF == "xFF"
\* the character U+00E9, whose UTF-8 encoding is the bytes C3 A9
UE9 == "U+E9"

CRLF == <<CR, LF>>

RECURSIVE Repeat(_, _)
\* Python's  s * n  on strings
Repeat(s, n) == IF n <= 0 THEN <<>> ELSE s \o Repeat(s, n - 1)

EndsWith(s, suffix) ==
    /\ Len(s) >= Len(suffix)
    /\ SubSeq(s, Len(s) - Len(suffix) + 1, Len(s)) = suffix

RECURSIVE Utf8Decode(_)
\* bytes.decode("utf-8", errors="ignore"): an ASCII byte is its character,
\* C3 A9 is U+00E9, and a byte that starts no valid sequence is dropped
\* (a lead byte whose continuation is missing is dropped alone, and the
\* byte after it is decoded afresh).
Utf8Decode(b) ==
    IF b = <<>> THEN <<>>
    ELSE IF b[1] \notin {xC3, xA9, xFF} THEN <<b[1]>> \o Utf8Decode(Tail(b))
    ELSE IF b[1] = xC3 /\ Len(b) >= 2 /\ b[2] = xA9
         THEN <<UE9>> \o Utf8Decode(Tail(Tail(b)))
    ELSE Utf8Decode(Tail(b))

RECURSIVE Utf8Encode(_)
\* str.encode("utf-8")
Utf8Encode(s) ==
    IF s = <<>> THEN <<>>
    ELSE (IF s[1] = UE9 THEN <<xC3, xA9>> ELSE <<s[1]>>) \o Utf8Encode(Tail(s))

RECURSIVE UniversalNewlines(_)
\* Reading in text mode with newline=None (the default of Path.read_text):
\* CR LF and a lone CR are both handed to the program as LF.
UniversalNewlines(s) ==
    IF s = <<>> THEN <<>>
    ELSE IF s[1] = CR /\ Len(s) >= 2 /\ s[2] = LF
         THEN <<LF>> \o UniversalNewlines(Tail(Tail(s)))
    ELSE IF s[1] = CR THEN <<LF>> \o UniversalNewlines(Tail(s))
    ELSE <<s[1]>> \o UniversalNewlines(Tail(s))

\* file.read_text(encoding="utf-8", errors="ignore"): the incremental
\* decoder runs first, the newline translation on the decoded text.
read_text(data) == UniversalNewlines(Utf8Decode(data))

\* out.write(s) on a handle opened with encoding="utf-8", newline="":
\* no newline translation, the text is encoded and appended.
write(data, s) == data \o Utf8Encode(s)


---------------------------------------------------------------------------
(* Paths.  The working directory holds at most the files of PathTable and  *)
(* combined.txt; a path is the tuple of its components relative to ".".    *)

\* a slip in line 7: the output named like a file of the tree
OutputInTree == << <<"C", "a", "r", "g", "o", ".", "t", "o", "m", "l">> >>

\* line 7: OUTPUT = Path("combined.txt")
OUTPUT == << <<"c", "o", "m", "b", "i", "n", "e", "d", ".", "t", "x", "t">> >>

target == <<"t", "a", "r", "g", "e", "t">>
addons == <<"a", "d", "d", "o", "n", "s">>
\* the patterns handed to rglob (lines 13-15)
PatRs == <<"*", ".", "r", "s">>
PatPest == <<"*", ".", "p", "e", "s", "t">>
PatCargo == <<"C", "a", "r", "g", "o", ".", "t", "o", "m", "l">>

\* the absolute path of the working directory, "/w"
Cwd == <<"/", "w">>

\* The files a tree is drawn from: .rs, .pest and Cargo.toml files at the
\* root, below target/, below addons/, below a directory that merely starts
\* with "target", and a file no pattern matches.
PathTable == <<
    << <<"a", ".", "r", "s">> >>,
    << target, <<"x">>, <<"c", ".", "r", "s">> >>,
    << addons, <<"e", ".", "r", "s">> >>,
    << <<"t", "a", "r", "g", "e", "t", "s">>, <<"b", ".", "r", "s">> >>,
    << <<"g", ".", "p", "e", "s", "t">> >>,
    << addons, <<"h", ".", "p", "e", "s", "t">> >>,
    << target, <<"i", ".", "p", "e", "s", "t">> >>,
    << <<"C", "a", "r", "g", "o", ".", "t", "o", "m", "l">> >>,
    << <<"s">>, addons, <<"d">>, <<"C", "a", "r", "g", "o", ".", "t", "o", "m", "l">> >>,
    << <<"n", ".", "t", "x", "t">> >> >>

\* The bytes each file of PathTable holds when it exists: CR LF line ends,
\* LF line ends, a lone CR, invalid bytes, a two-byte character, no bytes.
ContentTable == <<
    <<"f", CR, LF, "g", LF>>,
    <<"c">>,
    <<"x", CR, xFF, LF, xC3, xA9, xC3, "z">>,
    <<>>,
    <<"p", LF>>,
    <<"h", CR, LF>>,
    <<"i", xA9, xFF>>,
    <<"m", LF, "n", CR>>,
    <<"k">>,
    <<"t", CR, LF>> >>

\* what a combined.txt left in the tree before the first invocation holds
StaleOutput == <<"o", "l", "d">>

NPaths == Len(PathTable)
SourcePaths == {PathTable[n] : n \in 1..NPaths}
AllPaths == SourcePaths \cup {OUTPUT}

NoFile == [exists |-> FALSE, data |-> <<>>]
File(data) == [exists |-> TRUE, data |-> data]

\* Path.name
Name(p) == p[Len(p)]
\* x in f.parts
InParts(x, p) == \E k \in 1..Len(p) : p[k] = x

\* fnmatch of a file name against "*<suffix>" or a literal name, case
\* sensitive (POSIX)
fnmatch(name, pat) ==
    IF pat # <<>> /\ pat[1] = "*" THEN EndsWith(name, Tail(pat)) ELSE name = pat

\* Path(".").rglob(pat) on file system f: the existing paths whose name
\* matches, in traversal order
rglob(f, pat) ==
    LET Hit(p) == f[p].exists /\ fnmatch(Name(p), pat)
    IN  SelectSeq(walk, Hit)

\* a slip in line 13-15's filter: only the first component is compared
WithoutTop(found, part) ==
    LET Keep(p) == p[1] # part
    IN  SelectSeq(found, Keep)

\* [f for f in found if part not in f.parts]
Without(found, part) ==
    LET Keep(p) == ~InParts(part, p)
    IN  SelectSeq(found, Keep)

RECURSIVE Join(_, _)
\* sep.join(parts)
Join(parts, sep) ==
    IF parts = <<>> THEN <<>>
    ELSE IF Len(parts) = 1 THEN parts[1]
    ELSE parts[1] \o sep \o Join(Tail(parts), sep)

\* file.resolve(): the working directory's absolute path, then the parts
\* (the model has no symbolic links and no ".." components)
resolve(p) == Cwd \o <<"/">> \o Join(p, <<"/">>)

\* a slip in line 19: the lists chained in another order
chainPestFirst == pest_files \o rs_files \o cargo_toml

\* line 19: chain(rs_files, pest_files, cargo_toml)
chain == rs_files \o pest_files \o cargo_toml

\* the loop variable of line 19
file == chain[i]

\* a slip in lines 20 and 22: '/'*10
BannerTen == Repeat(<<"/">>, 10) \o CRLF

\* lines 20 and 22: f"{'//'*10}\r\n"
Banner == Repeat(<<"/", "/">>, 10) \o CRLF
\* line 21: f"# {file.resolve()}\r\n"
PathLine(p) == <<"#", " ">> \o resolve(p) \o CRLF
\* line 24
Trailer == CRLF \o CRLF

\* the two orders of traversal of the model: the table's order (with
\* combined.txt last) and its reverse
WalkOrders ==
    LET fwd == PathTable \o <<OUTPUT>>
    IN  {fwd, [k \in 1..Len(fwd) |-> fwd[Len(fwd) + 1 - k]]}


---------------------------------------------------------------------------
(* The script, one action per statement.  A statement that can raise has   *)
(* a second action for the exception: nothing catches it, so the run ends  *)
(* there (pc = "aborted"), after the with-block has closed the handle.     *)

\* the trees the first invocation may find: at most MaxFiles files of
\* PathTable, each with its bytes, and possibly an old combined.txt
Trees ==
    {[p \in AllPaths |->
        IF p = OUTPUT THEN (IF stale THEN File(StaleOutput) ELSE NoFile)
        ELSE IF \E n \in S : PathTable[n] = p
             THEN File(ContentTable[CHOOSE n \in S : PathTable[n] = p])
             ELSE NoFile] :
     S \in {T \in SUBSET (1..NPaths) : Cardinality(T) <= MaxFiles},
     stale \in BOOLEAN}

Init ==
    /\ fs \in Trees
    /\ walk \in WalkOrders
    /\ pc = "start"
    /\ rs_files = <<>>
    /\ pest_files = <<>>
    /\ cargo_toml = <<>>
    /\ i = 0
    /\ outOpen = FALSE
    /\ stdout = <<>>
    /\ err = "none"
    /\ run = 1
    /\ fs0 = fs
    /\ prevOut = NoFile
    /\ prevErr = "first"

\* what every statement leaves alone
Env == <<walk, run, fs0, prevOut, prevErr>>

\* an uncaught exception in statement `step`
Raise(step) ==
    /\ pc' = "aborted"
    /\ err' = step
    /\ outOpen' = FALSE
    /\ UNCHANGED <<fs, rs_files, pest_files, cargo_toml, i, stdout, Env>>

\* a slip in lines 8-9: the old output is left for line 18 to truncate
UnlinkSkip ==
    /\ pc = "start"
    /\ pc' = "print"
    /\ UNCHANGED <<fs, rs_files, pest_files, cargo_toml, i, outOpen, stdout, err, Env>>

\* lines 8-9: if OUTPUT.exists(): OUTPUT.unlink()
Unlink ==
    /\ pc = "start"
    /\ fs' = IF fs[OUTPUT].exists THEN [fs EXCEPT ![OUTPUT] = NoFile] ELSE fs
    /\ pc' = "print"
    /\ UNCHANGED <<rs_files, pest_files, cargo_toml, i, outOpen, stdout, err, Env>>

\* line 9 raising (the entry cannot be removed)
UnlinkFail ==
    /\ pc = "start"
    /\ fs[OUTPUT].exists
    /\ Raise("unlink")

\* a slip in the order of lines 11-18: the output is opened before discovery
PrintStartOpens ==
    /\ pc = "print"
    /\ stdout' = Append(stdout, "collecting")
    /\ fs' = [fs EXCEPT ![OUTPUT] = File(<<>>)]
    /\ pc' = "rs"
    /\ UNCHANGED <<rs_files, pest_files, cargo_toml, i, outOpen, err, Env>>

\* line 11
PrintStart ==
    /\ pc = "print"
    /\ stdout' = Append(stdout, "collecting")
    /\ pc' = "rs"
    /\ UNCHANGED <<fs, rs_files, pest_files, cargo_toml, i, outOpen, err, Env>>

\* line 13
DiscoverRs ==
    /\ pc = "rs"
    /\ rs_files' = Without(rglob(fs, PatRs), target)
    /\ pc' = "pest"
    /\ UNCHANGED <<fs, pest_files, cargo_toml, i, outOpen, stdout, err, Env>>

\* a slip in line 14: the exclusion of line 13 copied
DiscoverPestTarget ==
    /\ pc = "pest"
    /\ pest_files' = Without(rglob(fs, PatPest), target)
    /\ pc' = "cargo"
    /\ UNCHANGED <<fs, rs_files, cargo_toml, i, outOpen, stdout, err, Env>>

\* line 14
DiscoverPest ==
    /\ pc = "pest"
    /\ pest_files' = Without(rglob(fs, PatPest), addons)
    /\ pc' = "cargo"
    /\ UNCHANGED <<fs, rs_files, cargo_toml, i, outOpen, stdout, err, Env>>

\* line 15
DiscoverCargo ==
    /\ pc = "cargo"
    /\ cargo_toml' = Without(rglob(fs, PatCargo), addons)
    /\ pc' = "open"
    /\ UNCHANGED <<fs, rs_files, pest_files, i, outOpen, stdout, err, Env>>

\* lines 13-15: the traversal raising (an OSError of scandir)
DiscoverFail ==
    /\ pc \in {"rs", "pest", "cargo"}
    /\ Raise("discover")

\* line 18: OUTPUT.open("w", ...) creates or truncates the file; line 19
\* starts the loop
Open ==
    /\ pc = "open"
    /\ fs' = [fs EXCEPT ![OUTPUT] = File(<<>>)]
    /\ outOpen' = TRUE
    /\ i' = 1
    /\ pc' = "loop"
    /\ UNCHANGED <<rs_files, pest_files, cargo_toml, stdout, err, Env>>

\* line 18 raising
OpenFail ==
    /\ pc = "open"
    /\ Raise("open")

\* lines 20-22: the three header lines of `file`
WriteHeader ==
    /\ pc = "loop"
    /\ i <= Len(chain)
    /\ fs' = [fs EXCEPT ![OUTPUT].data =
                write(write(write(@, Banner), PathLine(file)), Banner)]
    /\ pc' = "read"
    /\ UNCHANGED <<rs_files, pest_files, cargo_toml, i, outOpen, stdout, err, Env>>

\* lines 23-24: the file's text, the two blank lines, and the next file
WriteBody ==
    /\ pc = "read"
    /\ fs[file].exists
    /\ fs' = [fs EXCEPT ![OUTPUT].data =
                write(write(@, read_text(fs[file].data)), Trailer)]
    /\ i' = i + 1
    /\ pc' = "loop"
    /\ UNCHANGED <<rs_files, pest_files, cargo_toml, outOpen, stdout, err, Env>>

\* a slip in line 23: the failure of one file is caught and the loop goes on
ReadFailSkip ==
    /\ pc = "read"
    /\ err' = "read"
    /\ i' = i + 1
    /\ pc' = "loop"
    /\ UNCHANGED <<fs, rs_files, pest_files, cargo_toml, outOpen, stdout, Env>>

\* line 23 raising: read_text fails, the with-block closes `out`
ReadFail ==
    /\ pc = "read"
    /\ Raise("read")

\* the loop is exhausted and the with-block of line 18 ends
Close ==
    /\ pc = "loop"
    /\ i > Len(chain)
    /\ outOpen' = FALSE
    /\ pc' = "closed"
    /\ UNCHANGED <<fs, rs_files, pest_files, cargo_toml, i, stdout, err, Env>>

\* line 26
PrintDone ==
    /\ pc = "closed"
    /\ stdout' = Append(stdout, "done")
    /\ pc' = "done"
    /\ UNCHANGED <<fs, rs_files, pest_files, cargo_toml, i, outOpen, err, Env>>

\* The script is invoked again on the tree the last run left: a new
\* process, whose variables start afresh.
Rerun ==
    /\ pc \in {"done", "aborted"}
    /\ run < MaxRuns
    /\ run' = run + 1
    /\ prevOut' = fs[OUTPUT]
    /\ prevErr' = err
    /\ pc' = "start"
    /\ rs_files' = <<>>
    /\ pest_files' = <<>>
    /\ cargo_toml' = <<>>
    /\ i' = 0
    /\ outOpen' = FALSE
    /\ stdout' = <<>>
    /\ err' = "none"
    /\ UNCHANGED <<fs, walk, fs0>>

Next ==
    \/ Unlink
    \/ UnlinkFail
    \/ PrintStart
    \/ DiscoverRs
    \/ DiscoverPest
    \/ DiscoverCargo
    \/ DiscoverFail
    \/ Open
    \/ OpenFail
    \/ WriteHeader
    \/ WriteBody
    \/ ReadFail
    \/ Close
    \/ PrintDone
    \/ Rerun

Spec == Init /\ [][Next]_vars


---------------------------------------------------------------------------
(* What the claims speak of, written from their wording: the selection     *)
(* criteria, the shape of a block, and where blocks lie in combined.txt.   *)

\* "combined.txt in the working directory"
CombinedTxt == << <<"c", "o", "m", "b", "i", "n", "e", "d", ".", "t", "x", "t">> >>

\* "name ends in <suffix>"
NameEndsIn(p, suffix) ==
    LET name == p[Len(p)]
        d == Len(name) - Len(suffix)
    IN  d >= 0 /\ \A k \in 1..Len(suffix) : name[d + k] = suffix[k]

\* "a directory component equal to <dir>": a component before the name
UnderDir(p, dir) == \E k \in 1..(Len(p) - 1) : p[k] = dir

\* the category a path has by its name alone
NameCategory(p) ==
    IF NameEndsIn(p, <<".", "r", "s">>) THEN "rs"
    ELSE IF NameEndsIn(p, <<".", "p", "e", "s", "t">>) THEN "pest"
    ELSE IF p[Len(p)] = <<"C", "a", "r", "g", "o", ".", "t", "o", "m", "l">> THEN "cargo"
    ELSE "none"

\* "a .rs file whose path has a directory component equal to 'target', and
\* a .pest file or a Cargo.toml file whose path has a directory component
\* equal to 'addons'"
Excluded(p) ==
    \/ NameCategory(p) = "rs" /\ UnderDir(p, <<"t", "a", "r", "g", "e", "t">>)
    \/ NameCategory(p) \in {"pest", "cargo"} /\ UnderDir(p, <<"a", "d", "d", "o", "n", "s">>)

\* the criterion a path is selected by, "none" when by none
Category(p) == IF Excluded(p) THEN "none" ELSE NameCategory(p)

\* the files of file system f that match one of the three criteria
Selected(f) == {p \in DOMAIN f : f[p].exists /\ Category(p) # "none"}

\* "a line of twenty '/' characters + CR LF"
SlashLine ==
    <<"/", "/", "/", "/", "/", "/", "/", "/", "/", "/",
      "/", "/", "/", "/", "/", "/", "/", "/", "/", "/", CR, LF>>

\* the three header lines of the block of p
Header(p) == SlashLine \o <<"#", " ">> \o resolve(p) \o <<CR, LF>> \o SlashLine

\* the block of p, its content being the encoded text `body`
Block(p, body) == Header(p) \o body \o <<CR, LF, CR, LF>>

\* the positions of combined.txt's bytes `out` at which a header starts: a
\* slash line, then "# "
AllBlockStarts(out) ==
    LET h == SlashLine \o <<"#", " ">>
    IN  {k \in 1..(Len(out) - Len(h) + 1) :
            out[k + 20] = CR /\ out[k + 22] = "#"
                /\ SubSeq(out, k, k + Len(h) - 1) = h}

\* whether the header of p starts at position k of `out`
HeaderAt(out, k, p) ==
    LET h == Header(p)
    IN  k + Len(h) - 1 <= Len(out) /\ SubSeq(out, k, k + Len(h) - 1) = h

\* the positions among `starts` at which the header of p starts
BlockStarts(out, starts, p) == {k \in starts : HeaderAt(out, k, p)}

\* the paths of the model the exclusions apply to
ExcludedPaths == {p \in SourcePaths \cup {CombinedTxt} : Excluded(p)}

\* C1. Completeness: after a successful run, each file that matches one of
\* the three criteria has exactly one block in combined.txt, every other
\* file (combined.txt too) has none, and there are as many blocks as
\* selected files.
C1_Completeness ==
    pc = "done" =>
        LET out == fs[CombinedTxt].data
            starts == AllBlockStarts(out)
        IN  /\ \A p \in DOMAIN fs :
                  Cardinality(BlockStarts(out, starts, p)) =
                      IF p \in Selected(fs) THEN 1 ELSE 0
            /\ Cardinality(starts) = Cardinality(Selected(fs))

\* a successful run on a tree with two selected files and a file that is
\* not selected
C1_Witness ==
    /\ pc = "done"
    /\ Cardinality(Selected(fs)) = 2
    /\ \E p \in DOMAIN fs : p # CombinedTxt /\ fs[p].exists /\ p \notin Selected(fs)

\* C2. Exclusion enforcement: a .rs file below a directory named target,
\* and a .pest or Cargo.toml file below a directory named addons, has no
\* block in combined.txt in any state of any run, at any depth below the
\* excluded directory, and is never among the files to write.
C2_Exclusion ==
    LET out == fs[CombinedTxt].data
        starts == AllBlockStarts(out)
    IN  \A p \in ExcludedPaths :
            /\ \A k \in 1..Len(chain) : chain[k] # p
            /\ BlockStarts(out, starts, p) = {}

\* a successful run that wrote a block, on a tree holding an excluded file
\* two or more levels below its excluded directory
C2_Witness ==
    /\ pc = "done"
    /\ Len(chain) >= 1
    /\ \E p \in DOMAIN fs :
          /\ fs[p].exists
          /\ p \in ExcludedPaths
          /\ \E k \in 1..(Len(p) - 2) : p[k] \in {target, addons}


\* the selected files of f of one category, in the order of the traversal
InOrder(f, cat) ==
    LET Is(p) == f[p].exists /\ Category(p) = cat
    IN  SelectSeq(walk, Is)

\* "all matches of criteria (1), then all matches of criteria (2), then all
\* matches of criteria (3)"
ExpectedFiles(f) == InOrder(f, "rs") \o InOrder(f, "pest") \o InOrder(f, "cargo")

Rank(cat) == CASE cat = "rs" -> 1 [] cat = "pest" -> 2 [] cat = "cargo" -> 3 [] OTHER -> 4

WalkIndex(p) == CHOOSE k \in 1..Len(walk) : walk[k] = p

\* C3. Ordering: after a successful run every .rs block lies before every
\* .pest block and every .pest block before every Cargo.toml block, and two
\* blocks of one category lie in the order the traversal returned the files.
C3_Ordering ==
    pc = "done" =>
        LET out == fs[CombinedTxt].data
            starts == AllBlockStarts(out)
            Pos(p) == CHOOSE k \in BlockStarts(out, starts, p) : TRUE
        IN  \A p, q \in Selected(fs) :
                /\ BlockStarts(out, starts, p) # {}
                /\ Rank(Category(p)) < Rank(Category(q)) => Pos(p) < Pos(q)
                /\ (Category(p) = Category(q) /\ WalkIndex(p) < WalkIndex(q))
                       => Pos(p) < Pos(q)

\* a successful run on a tree with a file of each category, which the
\* traversal returned with Cargo.toml first and the .rs file last
C3_Witness ==
    /\ pc = "done"
    /\ Len(rs_files) = 1 /\ Len(pest_files) = 1 /\ Len(cargo_toml) = 1
    /\ WalkIndex(cargo_toml[1]) < WalkIndex(pest_files[1])
    /\ WalkIndex(pest_files[1]) < WalkIndex(rs_files[1])

\* C4. Idempotent overwrite: a successful run that follows a successful run
\* leaves combined.txt exactly as the earlier one left it; what an earlier
\* run or the initial tree left in combined.txt is gone before discovery
\* starts, and combined.txt is never among the files to write.
C4_Idempotent ==
    /\ (pc = "done" /\ prevErr = "none") => fs[CombinedTxt] = prevOut
    /\ pc \in {"rs", "pest", "cargo", "open"} => ~fs[CombinedTxt].exists
    /\ \A k \in 1..Len(chain) : chain[k] # CombinedTxt

\* the second of two successful runs, on a tree that held an old
\* combined.txt before the first and has files to write
C4_Witness ==
    /\ run = 2
    /\ pc = "done"
    /\ prevErr = "none"
    /\ fs0[CombinedTxt].exists
    /\ Len(chain) >= 2

RECURSIVE Concat(_)
Concat(seqs) == IF seqs = <<>> THEN <<>> ELSE seqs[1] \o Concat(Tail(seqs))

\* the blocks of `files` one after the other, Body(p) being the content of
\* the block of p
BlocksOf(files, Body(_)) ==
    Concat([k \in 1..Len(files) |-> Block(files[k], Body(files[k]))])

\* the blocks of `files`, each with the text the program reads from the file
Blocks(files, f) ==
    LET Body(p) == Utf8Encode(read_text(f[p].data))
    IN  BlocksOf(files, Body)

\* C5. Block structure: after a successful run combined.txt exists and is
\* exactly the concatenation, one per selected file, of slash line, "# " and
\* the absolute path, slash line, the file's text and CR LF CR LF, each line
\* ended by CR LF; with no selected file it is empty.
C5_BlockStructure ==
    pc = "done" => fs[CombinedTxt] = File(Blocks(ExpectedFiles(fs), fs))

\* a successful run that wrote two or more blocks
C5_Witness ==
    /\ pc = "done"
    /\ Len(chain) >= 2
    /\ \E k \in 1..Len(chain) : fs[chain[k]].data # <<>>


\* C6. Content pass-through: after a successful run the content of every
\* block is the file's decoded content character for character, every CR
\* and LF of it included: no line terminator is translated on reading or on
\* writing.
C6_PassThrough ==
    pc = "done" =>
        LET Body(p) == Utf8Encode(Utf8Decode(fs[p].data))
        IN  fs[CombinedTxt].data = BlocksOf(ExpectedFiles(fs), Body)

\* C7. Filesystem errors abort the run: once reading the i-th file of the
\* concatenation order has failed the run is over, the handle is closed, no
\* completion message is printed, and combined.txt holds exactly the blocks
\* of the first i-1 files and the three header lines of the i-th; the run
\* that follows and reads every file leaves the complete output.
C7_ReadFailureAborts ==
    /\ err = "read" =>
          LET files == ExpectedFiles(fs)
          IN  /\ pc = "aborted"
              /\ ~outOpen
              /\ \A k \in 1..Len(stdout) : stdout[k] # "done"
              /\ i \in 1..Len(files)
              /\ fs[CombinedTxt] =
                     File(Blocks(SubSeq(files, 1, i - 1), fs) \o Header(files[i]))
    /\ (pc = "done" /\ prevErr = "read") =>
          fs[CombinedTxt] = File(Blocks(ExpectedFiles(fs), fs))

\* a successful run after a run that failed reading its second or a later
\* file, and so left a complete block and a header behind
C7_Witness ==
    /\ pc = "done"
    /\ prevErr = "read"
    /\ Len(chain) >= 2
    /\ Len(prevOut.data) > Len(Blocks(<<chain[1]>>, fs))
    /\ prevOut # fs[CombinedTxt]

\* whether byte k of b belongs to a valid UTF-8 sequence
ValidAt(b, k) ==
    \/ b[k] \notin {xC3, xA9, xFF}
    \/ b[k] = xC3 /\ k < Len(b) /\ b[k + 1] = xA9
    \/ b[k] = xA9 /\ k > 1 /\ b[k - 1] = xC3

HasInvalid(b) == \E k \in 1..Len(b) : ~ValidAt(b, k)

RECURSIVE ValidFrom(_, _)
\* the bytes of b from position k on, those of invalid sequences removed
ValidFrom(b, k) ==
    IF k > Len(b) THEN <<>>
    ELSE (IF ValidAt(b, k) THEN <<b[k]>> ELSE <<>>) \o ValidFrom(b, k + 1)

\* C8. Decoding errors are tolerated: after a successful run the content of
\* the block of a file with invalid UTF-8 sequences is the file's text with
\* exactly those sequences removed and every validly encoded character kept
\* in its order, and the other blocks are as without the invalid file.
C8_DecodingTolerated ==
    pc = "done" =>
        LET Body(p) == IF HasInvalid(fs[p].data)
                       THEN ValidFrom(fs[p].data, 1)
                       ELSE Utf8Encode(read_text(fs[p].data))
        IN  fs[CombinedTxt].data = BlocksOf(ExpectedFiles(fs), Body)

\* C9. Frame: in every state of every run, successful or aborted, every
\* entry but combined.txt is as before the first run: no file is created,
\* deleted or modified.
C9_Frame ==
    /\ DOMAIN fs = DOMAIN fs0
    /\ \A p \in DOMAIN fs \ {CombinedTxt} : fs[p] = fs0[p]

\* a run aborted by a read failure after a successful run, on a tree that
\* holds an excluded file, combined.txt having changed
C9_Witness ==
    /\ pc = "aborted"
    /\ err = "read"
    /\ prevErr = "none"
    /\ fs[CombinedTxt] # fs0[CombinedTxt]
    /\ \E p \in ExcludedPaths : fs[p].exists

\* the steps of a run in the order the claim gives them, a failing step
\* ending the run, and a finished run being followed by the next
PhaseEdges ==
    {<<"start", "print">>, <<"print", "rs">>, <<"rs", "pest">>,
     <<"pest", "cargo">>, <<"cargo", "open">>, <<"open", "loop">>,
     <<"loop", "read">>, <<"read", "loop">>, <<"loop", "closed">>,
     <<"closed", "done">>, <<"done", "start">>, <<"aborted", "start">>}
    \cup {<<from, "aborted">> : from \in {"start", "rs", "pest", "cargo", "open", "read"}}

\* C10. Phase ordering: every step of a run follows the order delete, start
\* message, .rs, .pest, Cargo.toml discovery, create, write, close,
\* completion message; combined.txt is deleted only as the first step and
\* created or written only after the three discoveries, so it does not
\* exist during discovery nor after a run that aborted during discovery.
C10_PhaseOrdering ==
    [][/\ pc' # pc => <<pc, pc'>> \in PhaseEdges
       /\ (fs[CombinedTxt].exists /\ ~fs'[CombinedTxt].exists) => pc = "start"
       /\ (fs'[CombinedTxt].exists /\ fs'[CombinedTxt] # fs[CombinedTxt])
              => pc \in {"open", "loop", "read"}
       /\ stdout' # stdout =>
              \/ pc = "print" /\ stdout' = <<"collecting">>
              \/ pc = "closed" /\ ~outOpen /\ stdout' = <<"collecting", "done">>
              \/ pc' = "start" /\ stdout' = <<>>
       /\ rs_files' # rs_files => (pc = "rs" \/ pc' = "start")
       /\ pest_files' # pest_files => (pc = "pest" \/ pc' = "start")
       /\ cargo_toml' # cargo_toml => (pc = "cargo" \/ pc' = "start")
       /\ outOpen' # outOpen => (pc \in {"open", "read", "loop"})
       /\ pc' \in {"rs", "pest", "cargo", "open"} => ~fs'[CombinedTxt].exists
       /\ (pc' = "aborted" /\ err' = "discover") => ~fs'[CombinedTxt].exists
      ]_vars

\* a first run that aborted during discovery on a tree that held a
\* combined.txt and files to discover
C10_Witness ==
    /\ run = 1
    /\ pc = "aborted"
    /\ err = "discover"
    /\ fs0[CombinedTxt].exists
    /\ Len(rs_files) >= 1

============================================================================
